---- MODULE Spec2Model ----
(***************************************************************************)
(* cemconv: conversion between a Wavefront OBJ object and a CEM v2 model.  *)
(*                                                                         *)
(* obj_to_cem (the importer) and cem2_to_obj (the exporter) of             *)
(* src/cemconv/src/main.rs are modelled loop iteration by loop iteration.  *)
(* A Rust panic (index out of bounds) is the control state "panic".        *)
(*                                                                         *)
(* Numbers: an f64 of the OBJ object is an integer here (every value used  *)
(* is an integral f64); `as f32` is AsF32, round-to-nearest-even on a      *)
(* 24 bit significand.  A line of the exported text is a tuple: its tag    *)
(* followed by the numbers `{}` prints (Display of f32/u32 is injective).  *)
(* The u32 sums of the exporter stay far below 2^32 in every state, and   *)
(* `as u32` of an index or a length is the identity there.                 *)
(*                                                                         *)
(* obj.geometry holds the primitives the loops of obj_to_cem have visited; *)
(* the loops read every primitive once, in order, so the next primitive of *)
(* the object is drawn when the loop reaches it.  The bounding center      *)
(* (cem::collider::CenterBuilder) is computed outside this file and is     *)
(* read by neither converter: the V2 record has no center field.           *)
(***************************************************************************)
EXTENDS Integers, Sequences, FiniteSets, TLC

VARIABLES
    pc,                  \* control state of the run
    input_format,        \* convert: `input_format` of the run, "obj" or "cem"
    obj,                 \* the parsed OBJ object `i` (obj.objects[0])
    gi,                  \* outer loop of obj_to_cem: index of `geometry`
    si,                  \* inner loop of obj_to_cem: index of the shape
    triangles,           \* obj_to_cem: `triangles`
    vertices,            \* obj_to_cem: `vertices`
    vertex_associations, \* obj_to_cem: `vertex_associations`
    cem,                 \* the V2 model (result of obj_to_cem / input of cem2_to_obj)
    imported,            \* TRUE iff cem was produced by obj_to_cem in this behaviour
    mi,                  \* cem2_to_obj: position of the material loop
    string               \* cem2_to_obj: `string`, a sequence of lines

vars == <<pc, input_format, obj, gi, si, triangles, vertices, vertex_associations, cem,
          imported, mi, string>>

----------------------------------------------------------------------------
(* Bounds of the model *)

MaxPrims == 3
MaxGeoms == 2
MaxSelOffset == 1
MaxSelLen == 2
MaxVertexOffset == 1

----------------------------------------------------------------------------
(* Option<usize> *)

None == <<>>
Some(x) == <<x>>

(* `as f32` on an integral f64 *)

RECURSIVE Ulp(_)
Ulp(n) == IF n < 16777216 THEN 1 ELSE 2 * Ulp(n \div 2)

AsF32Nat(n) ==
    LET u == Ulp(n)
        q == n \div u
        r == n % u
    IN  IF 2 * r < u THEN q * u
        ELSE IF 2 * r > u THEN (q + 1) * u
        ELSE IF q % 2 = 0 THEN q * u ELSE (q + 1) * u

AsF32(x) == IF x >= 0 THEN AsF32Nat(x) ELSE 0 - AsF32Nat(0 - x)

----------------------------------------------------------------------------
(* The parsed OBJ object handed to obj_to_cem *)

\* Attribute lists of the object: positions (x, y, z), texture vertices
\* (u, v, w) and normals (x, y, z).
ObjAttributes ==
    { [vertices     |-> << <<1, 2, 3>>, <<16777217, 5, 6>> >>,
       tex_vertices |-> << <<7, 8, 9>> >>,
       normals      |-> << <<10, 33554433, 12>> >>],
      [vertices     |-> << <<0, 1, 0>>, <<2, 0, 4>> >>,
       tex_vertices |-> << <<1, 0, 0>> >>,
       normals      |-> << <<0, 0, 1>> >>] }

\* VTNIndex values used by the triangles: RefB, and the references that
\* differ from it in one component; the last three index one past the end
\* of an attribute list.
RefB == <<0, Some(0), Some(0)>>
RefP == <<1, Some(0), Some(0)>>
RefT == <<0, None, Some(0)>>
RefN == <<0, Some(0), None>>
RefQ == <<1, None, None>>
BadP == <<2, Some(0), Some(0)>>
BadT == <<0, Some(1), Some(0)>>
BadN == <<0, Some(0), Some(1)>>

GoodTriangles ==
    { <<RefB, RefP, RefT>>, <<RefT, RefB, RefB>>, <<RefN, RefT, RefP>>,
      <<RefP, RefN, RefB>>, <<RefQ, RefQ, RefN>>, <<RefB, RefQ, RefP>> }

BadTriangles ==
    { <<x, RefB, RefP>> : x \in {BadP, BadT, BadN} } \cup
    { <<RefB, x, RefP>> : x \in {BadP, BadT, BadN} } \cup
    { <<RefP, RefT, x>> : x \in {BadP, BadT, BadN} }

Triangle(t) == [kind |-> "Triangle", v |-> t]
Line == [kind |-> "Line", v |-> <<>>]
Point == [kind |-> "Point", v |-> <<>>]

Primitives ==
    { Triangle(t) : t \in GoodTriangles \cup BadTriangles } \cup {Line, Point}

\* Number of primitives of a geometry list
RECURSIVE ShapeCount(_)
ShapeCount(geometry) ==
    IF geometry = <<>> THEN 0
    ELSE Len(Head(geometry)) + ShapeCount(Tail(geometry))

----------------------------------------------------------------------------
(* The V2 model *)

NoModel ==
    [materials |-> <<>>, lod_levels |-> <<>>, tag_points |-> <<>>, frames |-> <<>>]

\* Models read by the Cem -> Obj conversion: any number of LOD levels,
\* frames, materials and selections, well formed or not.
CemVertex(k) ==
    [position |-> <<10 * k + 1, 10 * k + 2, 10 * k + 3>>,
     texture  |-> <<10 * k + 4, 10 * k + 5>>,
     normal   |-> <<10 * k + 6, 10 * k + 7, 10 * k + 8>>]

CemFrame(n) == [vertices |-> [k \in 1..n |-> CemVertex(k)]]

CemFrameLists ==
    { <<>>, <<CemFrame(1)>>, <<CemFrame(3)>>, <<CemFrame(3), CemFrame(0)>> }

CemLodLists ==
    { <<>>,
      << <<>> >>,
      << << <<0, 1, 2>> >> >>,
      << << <<0, 1, 2>>, <<2, 0, 1>> >> >>,
      << << <<2, 0, 1>>, <<0, 1, 2>>, <<1, 1, 0>> >> >>,
      << << <<0, 1, 2>>, <<2, 0, 1>> >>, << <<1, 1, 0>> >> >> }

CemSelections == [offset : 0..MaxSelOffset, len : 0..MaxSelLen]

CemSelectionLists ==
    { <<>> } \cup { <<s>> : s \in CemSelections }
             \cup { <<s, [offset |-> 0, len |-> 1]>> : s \in CemSelections }

CemMaterials ==
    { [name |-> "m", texture |-> o, triangles |-> sl, vertex_offset |-> o,
       vertex_count |-> 3, texture_name |-> "t"] :
         sl \in CemSelectionLists, o \in 0..MaxVertexOffset }

CemMaterialLists ==
    { <<>> } \cup { <<m>> : m \in CemMaterials }
             \cup { <<m, [name |-> "n", texture |-> 7,
                          triangles |-> << [offset |-> 1, len |-> 1] >>,
                          vertex_offset |-> 0, vertex_count |-> 3,
                          texture_name |-> "u"]>> : m \in CemMaterials }

CemInputs ==
    [materials : CemMaterialLists, lod_levels : CemLodLists,
     tag_points : { <<>> }, frames : CemFrameLists]

----------------------------------------------------------------------------
(* obj_to_cem *)

\* NewVertex without the exchange of y and z
NewVertex_NoSwap(i, v) ==
    LET position == i.vertices[v[1] + 1]
        texture  == IF v[2] = None THEN <<0, 0, 0>> ELSE i.tex_vertices[v[2][1] + 1]
        normal   == IF v[3] = None THEN <<1, 0, 0>> ELSE i.normals[v[3][1] + 1]
    IN  [position |-> <<AsF32(position[1]), AsF32(position[2]), AsF32(position[3])>>,
         texture  |-> <<AsF32(texture[1]), AsF32(texture[2])>>,
         normal   |-> <<AsF32(normal[1]), AsF32(normal[2]), AsF32(normal[3])>>]

\* The unified vertex pushed for a reference seen for the first time
NewVertex(i, v) ==
    LET position == i.vertices[v[1] + 1]
        texture  == IF v[2] = None THEN <<0, 0, 0>> ELSE i.tex_vertices[v[2][1] + 1]
        normal   == IF v[3] = None THEN <<1, 0, 0>> ELSE i.normals[v[3][1] + 1]
    IN  [position |-> <<AsF32(position[1]), AsF32(position[3]), AsF32(position[2])>>,
         texture  |-> <<AsF32(texture[1]), AsF32(texture[2])>>,
         normal   |-> <<AsF32(normal[1]), AsF32(normal[3]), AsF32(normal[2])>>]

\* An index of v is outside its attribute list: the slice index panics
OutOfBounds(i, v) ==
    \/ v[1] >= Len(i.vertices)
    \/ v[2] # None /\ v[2][1] >= Len(i.tex_vertices)
    \/ v[3] # None /\ v[3][1] >= Len(i.normals)

\* resolve_index with a map keyed by the position index alone
ResolveIndex_PositionKey(i, s, v) ==
    IF s.panic THEN s
    ELSE IF \E w \in DOMAIN s.assoc : w[1] = v[1]
         THEN [s EXCEPT !.index = s.assoc[CHOOSE w \in DOMAIN s.assoc : w[1] = v[1]]]
    ELSE IF OutOfBounds(i, v) THEN [s EXCEPT !.panic = TRUE]
    ELSE [assoc    |-> s.assoc @@ (v :> Len(s.vertices)),
          vertices |-> Append(s.vertices, NewVertex(i, v)),
          panic    |-> FALSE,
          index    |-> Len(s.vertices)]

\* resolve_index that reads vertices.len() after the push
ResolveIndex_LenAfterPush(i, s, v) ==
    IF s.panic THEN s
    ELSE IF v \in DOMAIN s.assoc THEN [s EXCEPT !.index = s.assoc[v]]
    ELSE IF OutOfBounds(i, v) THEN [s EXCEPT !.panic = TRUE]
    ELSE [assoc    |-> s.assoc @@ (v :> Len(s.vertices) + 1),
          vertices |-> Append(s.vertices, NewVertex(i, v)),
          panic    |-> FALSE,
          index    |-> Len(s.vertices) + 1]

\* The closure resolve_index, on the captured state s
ResolveIndex(i, s, v) ==
    IF s.panic THEN s
    ELSE IF v \in DOMAIN s.assoc THEN [s EXCEPT !.index = s.assoc[v]]
    ELSE IF OutOfBounds(i, v) THEN [s EXCEPT !.panic = TRUE]
    ELSE [assoc    |-> s.assoc @@ (v :> Len(s.vertices)),
          vertices |-> Append(s.vertices, NewVertex(i, v)),
          panic    |-> FALSE,
          index    |-> Len(s.vertices)]

\* convert: either an OBJ object is about to be imported, or a model has
\* been read for the Cem -> Obj conversion.
Init ==
    /\ \/ /\ pc = "import"
          /\ input_format = "obj"
          /\ \E a \in ObjAttributes :
                obj = [vertices |-> a.vertices, tex_vertices |-> a.tex_vertices,
                       normals |-> a.normals, geometry |-> <<>>]
          /\ cem = NoModel
       \/ /\ pc = "loaded"
          /\ input_format = "cem"
          /\ obj = [vertices |-> <<>>, tex_vertices |-> <<>>,
                    normals |-> <<>>, geometry |-> <<>>]
          /\ cem \in CemInputs
    /\ gi = 0
    /\ si = 0
    /\ triangles = <<>>
    /\ vertices = <<>>
    /\ vertex_associations = <<>>
    /\ imported = FALSE
    /\ mi = 0
    /\ string = <<>>

\* The outer loop moves on to the next geometry of the object.
NextGeometry ==
    /\ pc = "import"
    /\ gi < MaxGeoms
    /\ gi' = gi + 1
    /\ si' = 0
    /\ obj' = [obj EXCEPT !.geometry = Append(@, <<>>)]
    /\ UNCHANGED <<pc, input_format, triangles, vertices, vertex_associations, cem,
                   imported, mi, string>>

\* The body of the inner loop pushing the corners as (v0, v2, v1)
ProcessPrimitive_CornersSwapped(i, s, primitive) ==
    IF primitive.kind = "Triangle"
    THEN LET s0 == [assoc |-> s.assoc, vertices |-> s.vertices,
                    panic |-> FALSE, index |-> 0]
             r0 == ResolveIndex(i, s0, primitive.v[1])
             r1 == ResolveIndex(i, r0, primitive.v[2])
             r2 == ResolveIndex(i, r1, primitive.v[3])
         IN  [assoc     |-> r2.assoc,
              vertices  |-> r2.vertices,
              triangles |-> IF r2.panic THEN s.triangles
                            ELSE Append(s.triangles, <<r0.index, r2.index, r1.index>>),
              panic     |-> r2.panic]
    ELSE [assoc |-> s.assoc, vertices |-> s.vertices, triangles |-> s.triangles,
          panic |-> FALSE]

\* The body of the inner loop on one primitive; s is the state of
\* `triangles`, `vertices` and `vertex_associations` before it.
ProcessPrimitive(i, s, primitive) ==
    IF primitive.kind = "Triangle"
    THEN LET s0 == [assoc |-> s.assoc, vertices |-> s.vertices,
                    panic |-> FALSE, index |-> 0]
             r0 == ResolveIndex(i, s0, primitive.v[1])
             r1 == ResolveIndex(i, r0, primitive.v[2])
             r2 == ResolveIndex(i, r1, primitive.v[3])
         IN  [assoc     |-> r2.assoc,
              vertices  |-> r2.vertices,
              triangles |-> IF r2.panic THEN s.triangles
                            ELSE Append(s.triangles, <<r0.index, r1.index, r2.index>>),
              panic     |-> r2.panic]
    ELSE [assoc |-> s.assoc, vertices |-> s.vertices, triangles |-> s.triangles,
          panic |-> FALSE]

\* One iteration of the inner loop, on the next shape's primitive.
ImportPrimitive ==
    /\ pc = "import"
    /\ gi >= 1
    /\ ShapeCount(obj.geometry) < MaxPrims
    /\ \E primitive \in Primitives :
          LET r == ProcessPrimitive(obj, [assoc |-> vertex_associations,
                                         vertices |-> vertices,
                                         triangles |-> triangles], primitive)
          IN  /\ obj' = [obj EXCEPT !.geometry[gi] = Append(@, primitive)]
              /\ si' = si + 1
              /\ vertex_associations' = r.assoc
              /\ vertices' = r.vertices
              /\ triangles' = r.triangles
              /\ pc' = IF r.panic THEN "panic" ELSE pc
    /\ UNCHANGED <<input_format, gi, cem, imported, mi, string>>

\* The V2 value with the vertex range counted from the triangle list
BuildModel_CountFromTriangles(tris, verts) ==
    [materials |->
        << [name |-> "", texture |-> 0,
            triangles |-> << [offset |-> 0, len |-> Len(tris)] >>,
            vertex_offset |-> 0,
            vertex_count |-> Len(tris),
            texture_name |-> ""] >>,
     lod_levels |-> << tris >>,
     tag_points |-> <<>>,
     frames |-> << [vertices |-> verts] >>]

\* The V2 value returned by obj_to_cem
BuildModel(tris, verts) ==
    [materials |->
        << [name |-> "", texture |-> 0,
            triangles |-> << [offset |-> 0, len |-> Len(tris)] >>,
            vertex_offset |-> 0,
            vertex_count |-> Len(verts),
            texture_name |-> ""] >>,
     lod_levels |-> << tris >>,
     tag_points |-> <<>>,
     frames |-> << [vertices |-> verts] >>]

\* Both loops are exhausted: triangles[0], then the model is built.
ImportFinish ==
    /\ pc = "import"
    /\ IF triangles = <<>>
       THEN /\ pc' = "panic"
            /\ UNCHANGED <<cem, imported>>
       ELSE /\ pc' = "imported"
            /\ imported' = TRUE
            /\ cem' = BuildModel(triangles, vertices)
    /\ UNCHANGED <<input_format, obj, gi, si, triangles, vertices, vertex_associations,
                   mi, string>>

----------------------------------------------------------------------------
(* cem2_to_obj *)

\* The model written by the Obj -> Cem conversion is read by a later
\* Cem -> Obj conversion.
ReadBack ==
    /\ pc = "imported"
    /\ pc' = "loaded"
    /\ input_format' = "cem"
    /\ UNCHANGED <<obj, gi, si, triangles, vertices, vertex_associations, cem,
                   imported, mi, string>>

\* The three lines written for one vertex of the frame
VertexLines(vertex) ==
    << <<"v", vertex.position[1], vertex.position[3], vertex.position[2]>>,
       <<"vn", vertex.normal[1], vertex.normal[3], vertex.normal[2]>>,
       <<"vt", vertex.texture[1], vertex.texture[2]>> >>

\* The loop over frame.vertices, last vertex first
RECURSIVE VertexLoop_Reversed(_)
VertexLoop_Reversed(vs) ==
    IF vs = <<>> THEN <<>>
    ELSE VertexLoop_Reversed(Tail(vs)) \o VertexLines(Head(vs))

\* The loop over frame.vertices
RECURSIVE VertexLoop(_)
VertexLoop(vs) ==
    IF vs = <<>> THEN <<>> ELSE VertexLines(Head(vs)) \o VertexLoop(Tail(vs))

\* The face line with 0-based indices
FaceLine_ZeroBased(vertex_offset, triangle) ==
    LET i0 == vertex_offset + triangle[1]
        i1 == vertex_offset + triangle[2]
        i2 == vertex_offset + triangle[3]
    IN  <<"f", i0, i0, i0, i1, i1, i1, i2, i2, i2>>

\* The line written for one triangle of a material
FaceLine(vertex_offset, triangle) ==
    LET i0 == vertex_offset + triangle[1] + 1
        i1 == vertex_offset + triangle[2] + 1
        i2 == vertex_offset + triangle[3] + 1
    IN  <<"f", i0, i0, i0, i1, i1, i1, i2, i2, i2>>

\* The loop `for index in 0..triangle_slice.len`, from index on; str is the
\* text written so far.
RECURSIVE FaceLoop(_, _, _, _, _)
FaceLoop(str, triangle_data, triangle_slice, vertex_offset, index) ==
    IF index >= triangle_slice.len THEN [string |-> str, panic |-> FALSE]
    ELSE IF index + triangle_slice.offset >= Len(triangle_data)
         THEN [string |-> str, panic |-> TRUE]
    ELSE FaceLoop(Append(str, FaceLine(vertex_offset,
                                       triangle_data[index + triangle_slice.offset + 1])),
                  triangle_data, triangle_slice, vertex_offset, index + 1)

\* lod_levels[0], frames[0], then the loop over the vertices of the frame.
ExportBegin ==
    /\ pc = "loaded"
    /\ IF cem.lod_levels = <<>> \/ cem.frames = <<>>
       THEN /\ pc' = "panic"
            /\ UNCHANGED string
       ELSE /\ pc' = "materials"
            /\ string' = VertexLoop(cem.frames[1].vertices)
    /\ mi' = 0
    /\ UNCHANGED <<input_format, obj, gi, si, triangles, vertices,
                   vertex_associations, cem, imported>>

\* One iteration of the loop over the materials.
ExportMaterial ==
    /\ pc = "materials"
    /\ mi < Len(cem.materials)
    /\ LET material == cem.materials[mi + 1]
           header == <<"#", material.name, material.texture, material.texture_name>>
           faces == FaceLoop(Append(string, header), cem.lod_levels[1],
                             material.triangles[1], material.vertex_offset, 0)
       IN  IF material.triangles = <<>>
           THEN /\ pc' = "panic"
                /\ UNCHANGED <<mi, string>>
           ELSE /\ string' = faces.string
                /\ IF faces.panic
                   THEN /\ pc' = "panic"
                        /\ UNCHANGED mi
                   ELSE /\ pc' = pc
                        /\ mi' = mi + 1
    /\ UNCHANGED <<input_format, obj, gi, si, triangles, vertices,
                   vertex_associations, cem, imported>>

\* The loop over the materials is exhausted: the text is returned.
ExportReturn ==
    /\ pc = "materials"
    /\ mi = Len(cem.materials)
    /\ pc' = "exported"
    /\ UNCHANGED <<input_format, obj, gi, si, triangles, vertices, vertex_associations, cem,
                   imported, mi, string>>

Next ==
    \/ NextGeometry
    \/ ImportPrimitive
    \/ ImportFinish
    \/ ReadBack
    \/ ExportBegin
    \/ ExportMaterial
    \/ ExportReturn

Spec == Init /\ [][Next]_vars

----------------------------------------------------------------------------
(* Vocabulary of the properties *)

RECURSIVE Flatten(_)
Flatten(geometry) ==
    IF geometry = <<>> THEN <<>> ELSE Head(geometry) \o Flatten(Tail(geometry))

IsTriangle(p) == p.kind = "Triangle"

\* The triangle primitives of the object, in encounter order
TrianglePrimitives == SelectSeq(Flatten(obj.geometry), IsTriangle)

\* The vertex references of the triangle primitives: v0, v1, v2 of the first,
\* then of the second, ...
CornerRefs ==
    LET tp == TrianglePrimitives
    IN  [n \in 1..(3 * Len(tp)) |-> tp[((n - 1) \div 3) + 1].v[((n - 1) % 3) + 1]]

\* Number of distinct references that occur before the first occurrence of v
FirstSeenRank(corners, v) ==
    LET first(w) == CHOOSE n \in 1..Len(corners) :
                        corners[n] = w /\ \A m \in 1..(n - 1) : corners[m] # w
    IN  Cardinality({ corners[m] : m \in 1..(first(v) - 1) })

\* obj_to_cem is running or has returned, and has not panicked
ImportAlive == (input_format = "obj" /\ pc # "panic") \/ imported

\* A reference of the object indexes outside an attribute list
Malformed(v) == OutOfBounds(obj, v)

----------------------------------------------------------------------------
(* C1 *)

\* C1: two corners of the imported triangles have the same unified vertex
\* index if and only if their (position, texture, normal) references are
\* identical.
C1_Dedup ==
    LET tp == TrianglePrimitives
    IN  \A k, l \in 1..Len(triangles) : \A c, d \in 1..3 :
            (triangles[k][c] = triangles[l][d]) <=> (tp[k].v[c] = tp[l].v[d])

\* An import has returned in which two corners with the same position index,
\* one without and one with a texture index, have different unified indices,
\* and two corners of different triangles share a reference and an index.
C1_Witness ==
    LET tp == TrianglePrimitives
    IN  /\ pc = "imported"
        /\ \E k, l \in 1..Len(triangles) : \E c, d \in 1..3 :
              /\ tp[k].v[c][1] = tp[l].v[d][1]
              /\ tp[k].v[c][2] = None /\ tp[l].v[d][2] # None
              /\ triangles[k][c] # triangles[l][d]
        /\ \E k, l \in 1..Len(triangles) : \E c, d \in 1..3 :
              /\ k # l
              /\ tp[k].v[c] = tp[l].v[d]
              /\ triangles[k][c] = triangles[l][d]

----------------------------------------------------------------------------
(* C2 *)

\* C2: once the importer has ended on an object without a triangle
\* primitive, the run has ended with an input error (not a panic), and no
\* model has been produced.
C2_EmptyGeometryRejected ==
    (input_format = "obj" /\ pc # "import" /\ TrianglePrimitives = <<>>)
        => (pc = "input_error" /\ cem = NoModel)

----------------------------------------------------------------------------
(* C3 *)

\* C3: a model returned by the importer has one material, one LOD level, one
\* frame and no tag point; the material has one selection (0, number of
\* triangles of the LOD level) and the vertex range (0, number of vertices of
\* the frame).
C3_ImportedShape ==
    imported =>
        /\ Len(cem.materials) = 1
        /\ Len(cem.lod_levels) = 1
        /\ Len(cem.frames) = 1
        /\ cem.tag_points = <<>>
        /\ cem.materials[1].triangles =
              << [offset |-> 0, len |-> Len(cem.lod_levels[1])] >>
        /\ cem.materials[1].vertex_offset = 0
        /\ cem.materials[1].vertex_count = Len(cem.frames[1].vertices)
        /\ Len(cem.lod_levels[1]) = Len(TrianglePrimitives)
        /\ Len(cem.frames[1].vertices) = Cardinality(DOMAIN vertex_associations)

\* An import has returned a model with two triangles and three vertices.
C3_Witness ==
    /\ pc = "imported"
    /\ imported
    /\ Len(cem.lod_levels[1]) = 2
    /\ Len(cem.frames[1].vertices) = 3

----------------------------------------------------------------------------
(* C4 *)

\* The "v" and "vn" lines exported for the unified vertex of reference v
\* are the source position and the source normal after conv.
RoundTripLines(conv(_)) ==
    \A v \in DOMAIN vertex_associations :
        LET n == vertex_associations[v]
            position == obj.vertices[v[1] + 1]
        IN  /\ string[3 * n + 1] =
                 <<"v", conv(position[1]), conv(position[2]), conv(position[3])>>
            /\ v[3] # None =>
                 LET normal == obj.normals[v[3][1] + 1]
                 IN  string[3 * n + 2] =
                        <<"vn", conv(normal[1]), conv(normal[2]), conv(normal[3])>>

Identity(x) == x

\* C4 (as stated): exporting an imported model writes, for every unified
\* vertex, the source position as "v x y z" and the source normal as
\* "vn nx ny nz".
C4_RoundTripIdentity ==
    (imported /\ pc = "exported") => RoundTripLines(Identity)

\* C4 (amended): exporting an imported model writes, for every unified
\* vertex, the source position and normal in the source's component order,
\* each component narrowed to single precision.
C4_RoundTripNarrowed ==
    (imported /\ pc = "exported") => RoundTripLines(AsF32)

\* An imported model has been exported; it has a vertex whose source
\* position has three different components, one of them not representable
\* in single precision, and whose normal index is present.
C4_Witness ==
    /\ imported
    /\ pc = "exported"
    /\ \E v \in DOMAIN vertex_associations :
          LET position == obj.vertices[v[1] + 1]
          IN  /\ position[2] # position[3]
              /\ AsF32(position[1]) # position[1]
              /\ v[3] # None

----------------------------------------------------------------------------
(* C5 *)

\* C5: the lines written for the material just processed are, triangle by
\* triangle of its first selection, "f a/a/a b/b/b c/c/c" with
\* a, b, c = vertex_offset + unified index + 1.
C5_FaceIndexing ==
    (pc = "materials" /\ mi > 0) =>
        LET material == cem.materials[mi]
            sel == material.triangles[1]
            off == material.vertex_offset
        IN  \A j \in 1..sel.len :
                LET t == cem.lod_levels[1][sel.offset + j]
                    a == off + t[1] + 1
                    b == off + t[2] + 1
                    c == off + t[3] + 1
                IN  string[Len(string) - sel.len + j] = <<"f", a, a, a, b, b, b, c, c, c>>

\* A material with vertex offset 1 and a selection of two triangles that
\* starts at triangle 1 has been written.
C5_Witness ==
    /\ pc = "materials"
    /\ mi > 0
    /\ cem.materials[mi].vertex_offset = 1
    /\ cem.materials[mi].triangles[1].len = 2
    /\ cem.materials[mi].triangles[1].offset = 1

----------------------------------------------------------------------------
(* C6 *)

\* C6: once the importer has met a triangle corner whose position, texture
\* or normal index is out of range, the run has ended with an input error
\* (not a panic), and no model has been produced.
C6_MalformedReferenceRejected ==
    (\E n \in 1..Len(CornerRefs) : Malformed(CornerRefs[n]))
        => (pc = "input_error" /\ cem = NoModel)

----------------------------------------------------------------------------
(* C7 *)

\* Number of "v" lines of the text
VLineCount == Cardinality({ n \in 1..Len(string) : string[n][1] = "v" })

\* C7: a text returned by the exporter has no face line with an index
\* greater than the number of its "v" lines.
C7_NoDanglingFace ==
    pc = "exported" =>
        \A n \in 1..Len(string) :
            string[n][1] = "f" =>
                \A c \in {2, 5, 8} : string[n][c] <= VLineCount

----------------------------------------------------------------------------
(* C8 *)

\* Position of the annotation line of material m in the text
HeaderLine(m) ==
    LET RECURSIVE before(_)
        before(k) == IF k = 0 THEN 0
                     ELSE 1 + cem.materials[k].triangles[1].len + before(k - 1)
    IN  3 * Len(cem.frames[1].vertices) + before(m - 1) + 1

----------------------------------------------------------------------------
(* C9 *)

\* C9 (order): while the importer has not panicked, its triangle list has one
\* triangle per triangle primitive met, in encounter order, whose corners are
\* the unified indices of v0, v1, v2 in this order; the returned LOD level is
\* this list.
C9_TriangleOrder ==
    ImportAlive =>
        LET tp == TrianglePrimitives
        IN  /\ Len(triangles) = Len(tp)
            /\ \A k \in 1..Len(tp) :
                  triangles[k] = << vertex_associations[tp[k].v[1]],
                                    vertex_associations[tp[k].v[2]],
                                    vertex_associations[tp[k].v[3]] >>
            /\ imported => cem.lod_levels[1] = triangles

\* C9 (skipping): a step of the inner loop on a line or a point changes
\* neither the triangle list nor the vertex list nor the association map,
\* and does not end the run.
C9_SkipsNonTriangles ==
    [][ (/\ pc = "import"
         /\ Len(Flatten(obj'.geometry)) = Len(Flatten(obj.geometry)) + 1
         /\ ~IsTriangle(Flatten(obj'.geometry)[Len(Flatten(obj'.geometry))]))
        => (/\ triangles' = triangles
            /\ vertices' = vertices
            /\ vertex_associations' = vertex_associations
            /\ pc' = pc) ]_vars

\* C9: the triangle list follows the triangle primitives in order, and
\* lines and points are skipped without effect.
C9_ImporterOrderAndFiltering == []C9_TriangleOrder /\ C9_SkipsNonTriangles

\* An import has returned for an object whose primitives are a triangle, a
\* line or point, and a triangle different from the first, spread over two
\* geometries.
C9_Witness ==
    LET flat == Flatten(obj.geometry)
    IN  /\ pc = "imported"
        /\ Len(obj.geometry) = 2
        /\ Len(flat) = 3
        /\ IsTriangle(flat[1]) /\ ~IsTriangle(flat[2]) /\ IsTriangle(flat[3])
        /\ triangles[1] # triangles[2]

----------------------------------------------------------------------------
(* C10 *)

\* C10: while the importer has not panicked, the vertex list has one vertex
\* per distinct reference met, the association map gives the reference first
\* met n-th the index n - 1, every index of the triangle list is below the
\* length of the vertex list and every vertex is used by a triangle; in a
\* returned model every triangle index is inside the material's vertex range.
C10_IndexDensity ==
    ImportAlive =>
        LET corners == CornerRefs
            refs == { corners[n] : n \in 1..Len(corners) }
        IN  /\ Len(vertices) = Cardinality(refs)
            /\ DOMAIN vertex_associations = refs
            /\ \A v \in refs : vertex_associations[v] = FirstSeenRank(corners, v)
            /\ \A k \in 1..Len(triangles) : \A c \in 1..3 :
                  triangles[k][c] \in 0..(Len(vertices) - 1)
            /\ \A x \in 0..(Len(vertices) - 1) :
                  \E k \in 1..Len(triangles) : \E c \in 1..3 : triangles[k][c] = x
            /\ imported =>
                  \A k \in 1..Len(cem.lod_levels[1]) : \A c \in 1..3 :
                      cem.lod_levels[1][k][c] < cem.materials[1].vertex_count

\* The importer is past two triangles that share a reference: four distinct
\* references have been met in six corners.
C10_Witness ==
    /\ input_format = "obj"
    /\ pc = "import"
    /\ Len(triangles) = 2
    /\ Len(vertices) = 4

====
